---- MODULE Spec2Model ----
(***************************************************************************)
(* A model of src/src/lib.rs: the Bitcoin wire codec for CompactSize,      *)
(* Txid, OutPoint, Script, TransactionInput and BitcoinTransaction.        *)
(*                                                                         *)
(* Number representation.  TLC's integers are 32 bits wide, so the u32     *)
(* and u64 values of the program are kept as little-endian tuples of       *)
(* 16-bit limbs: a u32 is <<lo, hi>>, a u64 is <<l0, l1, l2, l3>>.  A u8    *)
(* and a u16 are plain naturals.  usize is 64 bits wide (a 64-bit target). *)
(* Buffer lengths and cursors that index an existing buffer are plain      *)
(* naturals; the one addition of the program that takes an operand read    *)
(* from the wire (consumed + len in Script::from_bytes) is done on limbs,  *)
(* modulo 2^64, with its carry.                                            *)
(***************************************************************************)
EXTENDS Integers, Sequences, FiniteSets, TLC

VARIABLES
    op,         \* the operation that ran last
    value,      \* the value last constructed and encoded: [kind, v]
    bytes,      \* the byte buffer: the last encoding, edited or not, or a raw one
    edit,       \* how bytes relates to the last encoding
    text,       \* the string handed to / produced by the Txid text conversion
    result      \* what the last decoder returned

vars == <<op, value, bytes, edit, text, result>>

----------------------------------------------------------------------------
(* Integer widths                                                          *)

Limb == 256 * 256

\* x as u64, for a usize / small natural x (x < 2^31)
U64FromNat(x) == <<x % Limb, x \div Limb, 0, 0>>

\* a < b for two limb tuples of the same width
RECURSIVE LimbsLessFrom(_, _, _)
LimbsLessFrom(a, b, i) ==
    IF i = 0 THEN FALSE
    ELSE IF a[i] # b[i] THEN a[i] < b[i]
    ELSE LimbsLessFrom(a, b, i - 1)

LimbsLess(a, b) == LimbsLessFrom(a, b, Len(a))

\* a <= b
LimbsLeq(a, b) == ~LimbsLess(b, a)

\* uN::to_le_bytes: each 16-bit limb gives its low byte, then its high byte
LeBytes(x) ==
    [i \in 1..(2 * Len(x)) |->
        IF i % 2 = 1 THEN x[(i + 1) \div 2] % 256
        ELSE x[i \div 2] \div 256]

\* uN::from_le_bytes of 2, 4 or 8 bytes
FromLeBytes(b) ==
    [i \in 1..(Len(b) \div 2) |-> b[2 * i - 1] + 256 * b[2 * i]]

\* a + x on usize (64 bits), a a natural and x a u64: the wrapped sum and
\* whether the true sum left the 64 bits
UsizeAdd(a, x) ==
    LET s1 == x[1] + a
        s2 == x[2] + (s1 \div Limb)
        s3 == x[3] + (s2 \div Limb)
        s4 == x[4] + (s3 \div Limb)
    IN  [sum |-> <<s1 % Limb, s2 % Limb, s3 % Limb, s4 % Limb>>,
         overflow |-> s4 \div Limb > 0]

\* a u64 known to be below 2^31, as a natural
NatFromU64(x) == x[1] + Limb * x[2]

----------------------------------------------------------------------------
(* Results                                                                 *)

NoValue == [kind |-> "none", v |-> <<>>]

Ok(k, v, n) == [tag |-> "Ok", kind |-> k, v |-> v, consumed |-> n, err |-> ""]
Err(e)      == [tag |-> "Err", kind |-> "none", v |-> <<>>, consumed |-> 0, err |-> e]
Panic(m)    == [tag |-> "Panic", kind |-> "none", v |-> <<>>, consumed |-> 0, err |-> m]
NoResult    == [tag |-> "None", kind |-> "none", v |-> <<>>, consumed |-> 0, err |-> ""]

InsufficientBytes == "InsufficientBytes"
InvalidFormat     == "InvalidFormat"

\* &bytes[from..]
SliceFrom(b, from) == SubSeq(b, from + 1, Len(b))

----------------------------------------------------------------------------
(* CompactSize                                                             *)

CompactSize_new(v) == [value |-> v]

\* CompactSize::to_bytes with the first class edge one too far (0..=253)
CompactSize_to_bytes_edge(self) ==
    LET v == self.value IN
    IF LimbsLeq(v, U64FromNat(253)) THEN <<v[1] % 256>>
    ELSE IF LimbsLeq(v, <<65535, 0, 0, 0>>) THEN <<253>> \o LeBytes(<<v[1]>>)
    ELSE IF LimbsLeq(v, <<65535, 65535, 0, 0>>) THEN <<254>> \o LeBytes(<<v[1], v[2]>>)
    ELSE <<255>> \o LeBytes(v)

CompactSize_to_bytes(self) ==
    LET v == self.value IN
    IF LimbsLeq(v, U64FromNat(252)) THEN <<v[1] % 256>>
    ELSE IF LimbsLeq(v, <<65535, 0, 0, 0>>) THEN <<253>> \o LeBytes(<<v[1]>>)
    ELSE IF LimbsLeq(v, <<65535, 65535, 0, 0>>) THEN <<254>> \o LeBytes(<<v[1], v[2]>>)
    ELSE <<255>> \o LeBytes(v)

\* CompactSize::from_bytes made strict: an encoding wider than the value
\* needs is refused with InvalidFormat
CompactSize_from_bytes_strict(b) ==
    IF Len(b) = 0 THEN Err(InsufficientBytes)
    ELSE IF b[1] <= 252 THEN Ok("CompactSize", CompactSize_new(U64FromNat(b[1])), 1)
    ELSE IF b[1] = 253 THEN
        IF Len(b) < 3 THEN Err(InsufficientBytes)
        ELSE IF b[2] + 256 * b[3] <= 252 THEN Err(InvalidFormat)
        ELSE Ok("CompactSize", CompactSize_new(<<b[2] + 256 * b[3], 0, 0, 0>>), 3)
    ELSE IF b[1] = 254 THEN
        IF Len(b) < 5 THEN Err(InsufficientBytes)
        ELSE IF b[4] + 256 * b[5] = 0 THEN Err(InvalidFormat)
        ELSE Ok("CompactSize",
                CompactSize_new(<<b[2] + 256 * b[3], b[4] + 256 * b[5], 0, 0>>), 5)
    ELSE
        IF Len(b) < 9 THEN Err(InsufficientBytes)
        ELSE IF b[6] + 256 * b[7] = 0 /\ b[8] + 256 * b[9] = 0 THEN Err(InvalidFormat)
        ELSE Ok("CompactSize",
                CompactSize_new(FromLeBytes(<<b[2], b[3], b[4], b[5],
                                              b[6], b[7], b[8], b[9]>>)), 9)

CompactSize_from_bytes(b) ==
    IF Len(b) = 0 THEN Err(InsufficientBytes)
    ELSE IF b[1] <= 252 THEN Ok("CompactSize", CompactSize_new(U64FromNat(b[1])), 1)
    ELSE IF b[1] = 253 THEN
        IF Len(b) < 3 THEN Err(InsufficientBytes)
        ELSE LET val == FromLeBytes(<<b[2], b[3]>>)
             IN  Ok("CompactSize", CompactSize_new(<<val[1], 0, 0, 0>>), 3)
    ELSE IF b[1] = 254 THEN
        IF Len(b) < 5 THEN Err(InsufficientBytes)
        ELSE LET val == FromLeBytes(<<b[2], b[3], b[4], b[5]>>)
             IN  Ok("CompactSize", CompactSize_new(<<val[1], val[2], 0, 0>>), 5)
    ELSE
        IF Len(b) < 9 THEN Err(InsufficientBytes)
        ELSE LET val == FromLeBytes(<<b[2], b[3], b[4], b[5], b[6], b[7], b[8], b[9]>>)
             IN  Ok("CompactSize", CompactSize_new(val), 9)

----------------------------------------------------------------------------
(* Txid and its text form                                                  *)

HexDigits == <<"0", "1", "2", "3", "4", "5", "6", "7",
               "8", "9", "a", "b", "c", "d", "e", "f">>

\* hex::encode: two lowercase digits per byte, high nibble first
HexEncode(data) ==
    [i \in 1..(2 * Len(data)) |->
        IF i % 2 = 1 THEN HexDigits[(data[(i + 1) \div 2] \div 16) + 1]
        ELSE HexDigits[(data[i \div 2] % 16) + 1]]

\* the value of one hex digit, -1 for any other character
HexVal(c) ==
    CASE c = "0" -> 0  [] c = "1" -> 1  [] c = "2" -> 2  [] c = "3" -> 3
      [] c = "4" -> 4  [] c = "5" -> 5  [] c = "6" -> 6  [] c = "7" -> 7
      [] c = "8" -> 8  [] c = "9" -> 9
      [] c = "a" -> 10 [] c = "b" -> 11 [] c = "c" -> 12
      [] c = "d" -> 13 [] c = "e" -> 14 [] c = "f" -> 15
      [] c = "A" -> 10 [] c = "B" -> 11 [] c = "C" -> 12
      [] c = "D" -> 13 [] c = "E" -> 14 [] c = "F" -> 15
      [] OTHER -> -1

\* hex::decode: an odd length or a character that is no hex digit is an error
HexDecode(s) ==
    IF Len(s) % 2 # 0 THEN Err("OddLength")
    ELSE IF \E i \in 1..Len(s) : HexVal(s[i]) < 0 THEN Err("InvalidHexCharacter")
    ELSE Ok("Bytes",
            [i \in 1..(Len(s) \div 2) |-> 16 * HexVal(s[2 * i - 1]) + HexVal(s[2 * i])],
            Len(s))

Txid_serialize(self) == HexEncode(self)

\* Txid::deserialize without the length check: the first 32 decoded bytes
\* are taken whenever there are that many
Txid_deserialize_unchecked(hex_str) ==
    LET decoded == HexDecode(hex_str) IN
    IF decoded.tag # "Ok" THEN Err("custom")
    ELSE IF Len(decoded.v) < 32 THEN Err("custom")
    ELSE Ok("Txid", SubSeq(decoded.v, 1, 32), Len(hex_str))

Txid_deserialize(hex_str) ==
    LET decoded == HexDecode(hex_str) IN
    IF decoded.tag # "Ok" THEN Err("custom")
    ELSE IF Len(decoded.v) # 32 THEN Err("custom")
    ELSE Ok("Txid", decoded.v, Len(hex_str))

----------------------------------------------------------------------------
(* OutPoint                                                                *)

OutPoint_new(txid, vout) == [txid |-> txid, vout |-> vout]

OutPoint_to_bytes(self) == self.txid \o LeBytes(self.vout)

OutPoint_from_bytes(b) ==
    IF Len(b) < 36 THEN Err(InsufficientBytes)
    ELSE LET txid == SubSeq(b, 1, 32)
             vout == FromLeBytes(<<b[33], b[34], b[35], b[36]>>)
         IN  Ok("OutPoint", OutPoint_new(txid, vout), 36)

----------------------------------------------------------------------------
(* Script                                                                  *)

Script_new(data) == [bytes |-> data]

Script_to_bytes(self) ==
    CompactSize_to_bytes(CompactSize_new(U64FromNat(Len(self.bytes)))) \o self.bytes

\* Script::from_bytes that wants the buffer to end where the script ends
Script_read_data_exact(b, consumed, add, overflow_checks) ==
    IF add.overflow /\ overflow_checks THEN Panic("attempt to add with overflow")
    ELSE IF U64FromNat(Len(b)) # add.sum THEN Err(InsufficientBytes)
    ELSE Ok("Script", Script_new(SubSeq(b, consumed + 1, NatFromU64(add.sum))),
            NatFromU64(add.sum))

\* the rest of from_bytes once the length prefix is read.  overflow_checks:
\* whether the build traps integer overflow (a debug build) or wraps (a
\* release build)
Script_read_data(b, consumed, add, overflow_checks) ==
    IF add.overflow /\ overflow_checks THEN Panic("attempt to add with overflow")
    ELSE IF LimbsLess(U64FromNat(Len(b)), add.sum) THEN Err(InsufficientBytes)
    ELSE IF consumed > NatFromU64(add.sum) THEN Panic("slice index starts after its end")
    ELSE IF NatFromU64(add.sum) > Len(b) THEN Panic("range end index out of range")
    ELSE Ok("Script", Script_new(SubSeq(b, consumed + 1, NatFromU64(add.sum))),
            NatFromU64(add.sum))

Script_after_prefix(b, prefix, overflow_checks) ==
    IF prefix.tag # "Ok" THEN prefix
    ELSE Script_read_data(b, prefix.consumed,
                          UsizeAdd(prefix.consumed, prefix.v.value), overflow_checks)

Script_from_bytes(b, overflow_checks) ==
    Script_after_prefix(b, CompactSize_from_bytes(b), overflow_checks)

----------------------------------------------------------------------------
(* TransactionInput                                                        *)

TransactionInput_new(previous_output, script_sig, sequence) ==
    [previous_output |-> previous_output, script_sig |-> script_sig,
     sequence |-> sequence]

\* TransactionInput::to_bytes with the sequence number written before the script
TransactionInput_to_bytes_reordered(self) ==
    OutPoint_to_bytes(self.previous_output)
        \o LeBytes(self.sequence)
        \o Script_to_bytes(self.script_sig)

TransactionInput_to_bytes(self) ==
    OutPoint_to_bytes(self.previous_output)
        \o Script_to_bytes(self.script_sig)
        \o LeBytes(self.sequence)

\* the sequence number, once the outpoint (r1) and the script (r2) are read
TransactionInput_read_sequence(b, r1, r2) ==
    IF r2.tag # "Ok" THEN r2
    ELSE IF Len(b) < r1.consumed + r2.consumed + 4 THEN Err(InsufficientBytes)
    ELSE Ok("TransactionInput",
            TransactionInput_new(r1.v, r2.v,
                FromLeBytes(<<b[r1.consumed + r2.consumed + 1],
                              b[r1.consumed + r2.consumed + 2],
                              b[r1.consumed + r2.consumed + 3],
                              b[r1.consumed + r2.consumed + 4]>>)),
            r1.consumed + r2.consumed + 4)

\* the script, once the outpoint (r1) is read
TransactionInput_after_outpoint(b, r1, overflow_checks) ==
    IF r1.tag # "Ok" THEN r1
    ELSE TransactionInput_read_sequence(b, r1,
            Script_from_bytes(SliceFrom(b, r1.consumed), overflow_checks))

TransactionInput_from_bytes(b, overflow_checks) ==
    TransactionInput_after_outpoint(b, OutPoint_from_bytes(b), overflow_checks)

----------------------------------------------------------------------------
(* BitcoinTransaction                                                      *)

BitcoinTransaction_new(version, inputs, lock_time) ==
    [version |-> version, inputs |-> inputs, lock_time |-> lock_time]

RECURSIVE ConcatInputs(_, _)
\* for input in &self.inputs { v.extend(input.to_bytes()) }
ConcatInputs(inputs, i) ==
    IF i > Len(inputs) THEN <<>>
    ELSE TransactionInput_to_bytes(inputs[i]) \o ConcatInputs(inputs, i + 1)

BitcoinTransaction_to_bytes(self) ==
    LeBytes(self.version)
        \o CompactSize_to_bytes(CompactSize_new(U64FromNat(Len(self.inputs))))
        \o ConcatInputs(self.inputs, 1)
        \o LeBytes(self.lock_time)

RECURSIVE ReadInputs(_, _, _, _, _, _)
RECURSIVE ReadInput(_, _, _, _, _, _, _)
\* for _ in 0..input_count.value { ... }: i inputs are read and cursor is where
\* the next one starts; the first failing input ends the whole decode
ReadInputs(b, count, i, cursor, inputs, overflow_checks) ==
    IF ~LimbsLess(U64FromNat(i), count)
    THEN [tag |-> "Ok", inputs |-> inputs, cursor |-> cursor]
    ELSE ReadInput(b, count, i, cursor, inputs, overflow_checks,
                   TransactionInput_from_bytes(SliceFrom(b, cursor), overflow_checks))

\* the loop putting each input in front of those read before it
ReadInput_reversed(b, count, i, cursor, inputs, overflow_checks, r) ==
    IF r.tag # "Ok" THEN r
    ELSE ReadInputs(b, count, i + 1, cursor + r.consumed, <<r.v>> \o inputs,
                    overflow_checks)

\* one turn of the loop: r is what TransactionInput::from_bytes returned
ReadInput(b, count, i, cursor, inputs, overflow_checks, r) ==
    IF r.tag # "Ok" THEN r
    ELSE ReadInputs(b, count, i + 1, cursor + r.consumed, Append(inputs, r.v),
                    overflow_checks)

\* from_bytes that takes a missing lock time to be 0
BitcoinTransaction_read_lock_time_default(b, version, loop) ==
    IF loop.tag # "Ok" THEN loop
    ELSE IF Len(b) < loop.cursor + 4
    THEN Ok("BitcoinTransaction",
            BitcoinTransaction_new(version, loop.inputs, <<0, 0>>), loop.cursor)
    ELSE Ok("BitcoinTransaction",
            BitcoinTransaction_new(version, loop.inputs,
                FromLeBytes(<<b[loop.cursor + 1], b[loop.cursor + 2],
                              b[loop.cursor + 3], b[loop.cursor + 4]>>)),
            loop.cursor + 4)

\* the lock time, once the loop is over
BitcoinTransaction_read_lock_time(b, version, loop) ==
    IF loop.tag # "Ok" THEN loop
    ELSE IF Len(b) < loop.cursor + 4 THEN Err(InsufficientBytes)
    ELSE Ok("BitcoinTransaction",
            BitcoinTransaction_new(version, loop.inputs,
                FromLeBytes(<<b[loop.cursor + 1], b[loop.cursor + 2],
                              b[loop.cursor + 3], b[loop.cursor + 4]>>)),
            loop.cursor + 4)

BitcoinTransaction_after_count(b, version, rc, overflow_checks) ==
    IF rc.tag # "Ok" THEN rc
    ELSE BitcoinTransaction_read_lock_time(b, version,
            ReadInputs(b, rc.v.value, 0, 4 + rc.consumed, <<>>, overflow_checks))

BitcoinTransaction_from_bytes(b, overflow_checks) ==
    IF Len(b) < 4 THEN Err(InsufficientBytes)
    ELSE BitcoinTransaction_after_count(b, FromLeBytes(<<b[1], b[2], b[3], b[4]>>),
            CompactSize_from_bytes(SliceFrom(b, 4)), overflow_checks)

----------------------------------------------------------------------------
(* Bounds and the values the operations are applied to                     *)

MaxInputs == 2          \* most inputs of a constructed transaction
LongScriptLen == 253    \* length of the one script whose prefix is 3 bytes wide
MaxTrailing == 2        \* most raw inputs after the count of a raw transaction

\* u64 magnitudes around every width-class edge, and the extremes
U64Samples ==
    { <<0, 0, 0, 0>>, <<1, 0, 0, 0>>, <<252, 0, 0, 0>>, <<253, 0, 0, 0>>,
      <<254, 0, 0, 0>>, <<255, 0, 0, 0>>, <<256, 0, 0, 0>>, <<513, 0, 0, 0>>,
      <<65535, 0, 0, 0>>, <<0, 1, 0, 0>>, <<1, 1, 0, 0>>, <<513, 1027, 0, 0>>,
      <<65535, 65535, 0, 0>>, <<0, 0, 1, 0>>, <<1, 0, 1, 0>>, <<252, 0, 1, 0>>,
      <<5, 0, 0, 1>>, <<513, 1027, 1541, 2055>>, <<0, 0, 0, 32768>>,
      <<65526, 65535, 65535, 65535>>, <<65527, 65535, 65535, 65535>>,
      <<65535, 65535, 65535, 65535>> }

U32Samples == { <<0, 0>>, <<1, 0>>, <<513, 1027>>, <<65535, 65535>> }

ZeroTxid  == [i \in 1..32 |-> 0]
MixedTxid == [i \in 1..32 |-> (17 * i + 3) % 256]
FullTxid  == [i \in 1..32 |-> 255]

TxidSamples == { ZeroTxid, MixedTxid, FullTxid }

OutPointSamples ==
    { OutPoint_new(ZeroTxid, <<0, 0>>), OutPoint_new(MixedTxid, <<513, 1027>>),
      OutPoint_new(FullTxid, <<65535, 65535>>), OutPoint_new(MixedTxid, <<1, 0>>) }

LongScript == [i \in 1..LongScriptLen |-> 171]

ScriptSamples ==
    { Script_new(<<>>), Script_new(<<7>>), Script_new(<<253, 255>>),
      Script_new(LongScript) }

ExampleInput ==
    TransactionInput_new(OutPoint_new(ZeroTxid, <<0, 0>>), Script_new(<<>>),
                         <<65535, 65535>>)

MixedInput ==
    TransactionInput_new(OutPoint_new(MixedTxid, <<513, 1027>>),
                         Script_new(<<253, 255>>), <<0, 1>>)

LongInput ==
    TransactionInput_new(OutPoint_new(FullTxid, <<65535, 65535>>),
                         Script_new(LongScript), <<1, 0>>)

InputSamples ==
    { ExampleInput, MixedInput, LongInput,
      TransactionInput_new(OutPoint_new(FullTxid, <<1, 0>>), Script_new(<<7>>),
                           <<513, 1027>>) }

\* the sequences over S of length at most n
RECURSIVE SeqsUpTo(_, _)
SeqsUpTo(S, n) ==
    IF n = 0 THEN { <<>> }
    ELSE LET shorter == SeqsUpTo(S, n - 1)
         IN  shorter \cup { Append(q, x) : q \in shorter, x \in S }

TransactionSamples ==
    { BitcoinTransaction_new(vl[1], ins, vl[2]) :
        vl \in { <<<<1, 0>>, <<0, 0>>>>, <<<<513, 1027>>, <<65535, 65535>>>> },
        ins \in SeqsUpTo({ ExampleInput, MixedInput }, MaxInputs) \cup { <<LongInput>> } }

\* trailing bytes a caller may leave after an encoding
Suffixes == { <<0>>, <<255>>, <<253, 1>>, <<1, 0, 0, 0, 255>> }

RECURSIVE Flatten(_)
Flatten(chunks) ==
    IF chunks = <<>> THEN <<>> ELSE Head(chunks) \o Flatten(Tail(chunks))

\* length prefixes as they may arrive from the wire: minimal, over-long,
\* truncated, and declaring lengths up to 2^64 - 1
RawVarInts ==
    { <<0>>, <<1>>, <<2>>, <<252>>, <<253>>, <<253, 1>>, <<253, 1, 0>>, <<253, 2, 0>>,
      <<254, 1, 0, 0, 0>>, <<254, 0, 0, 0>>,
      <<255, 5, 0, 0, 0, 0, 0, 0, 0>>, <<255, 2, 0, 0, 0, 0, 0, 0>>,
      <<255, 0, 0, 0, 0, 0, 0, 0, 128>>,
      <<255, 246, 255, 255, 255, 255, 255, 255, 255>>,
      <<255, 247, 255, 255, 255, 255, 255, 255, 255>>,
      <<255, 255, 255, 255, 255, 255, 255, 255, 255>> }

RawScripts == { p \o d : p \in RawVarInts, d \in { <<>>, <<7>>, <<7, 8>> } }

RawInputs ==
    { OutPoint_to_bytes(OutPoint_new(MixedTxid, <<513, 1027>>)) \o s \o q :
        s \in RawScripts, q \in { <<>>, <<1, 2, 3, 4>> } }

\* the inputs placed in raw transactions: two well-formed ones, one whose
\* script runs into its sequence number, one declaring 2^64 - 1 script bytes
RawTxInputs ==
    { ZeroTxid \o <<0, 0, 0, 0>> \o s \o <<1, 2, 3, 4>> :
        s \in { <<0>>, <<1, 7>>, <<2, 7>>,
                <<255, 255, 255, 255, 255, 255, 255, 255, 255>> } }

RawTransactions ==
    { <<1, 0, 0, 0>> \o cnt \o Flatten(ins) \o lt :
        cnt \in RawVarInts,
        ins \in SeqsUpTo(RawTxInputs, MaxTrailing),
        lt \in { <<>>, <<9, 0, 0, 0>> } }

RawBuffers == { <<>> } \cup RawScripts \cup RawInputs \cup RawTransactions

\* the strings handed to the Txid text conversion besides the serialized form
Upper(c) ==
    CASE c = "a" -> "A" [] c = "b" -> "B" [] c = "c" -> "C"
      [] c = "d" -> "D" [] c = "e" -> "E" [] c = "f" -> "F" [] OTHER -> c

TextEdits(s) ==
    { SubSeq(s, 1, Len(s) - 1), SubSeq(s, 1, Len(s) - 2), s \o <<"0">>,
      s \o <<"0", "0">>, [i \in 1..Len(s) |-> Upper(s[i])],
      [i \in 1..Len(s) |-> IF i = 1 THEN "g" ELSE s[i]], <<>> }

----------------------------------------------------------------------------
(* The state machine: an encoder writes the buffer, the caller may cut or  *)
(* extend it or supply one from the wire, a decoder reads it               *)

Init ==
    /\ op = "init"
    /\ value = NoValue
    /\ bytes = <<>>
    /\ edit = "raw"
    /\ text = <<>>
    /\ result = NoResult

\* each run makes one value or takes one buffer, and decodes it once
Encoded(name, kind, v, b) ==
    /\ op = "init"
    /\ op' = name
    /\ value' = [kind |-> kind, v |-> v]
    /\ bytes' = b
    /\ edit' = "none"
    /\ text' = <<>>
    /\ result' = NoResult

Decoded(name, r) ==
    /\ op # "init"
    /\ result = NoResult
    /\ op' = name
    /\ result' = r
    /\ UNCHANGED <<value, bytes, edit, text>>

CompactSizeToBytes ==
    \E v \in U64Samples :
        Encoded("CompactSize::to_bytes", "CompactSize", CompactSize_new(v),
                CompactSize_to_bytes(CompactSize_new(v)))

OutPointToBytes ==
    \E o \in OutPointSamples :
        Encoded("OutPoint::to_bytes", "OutPoint", o, OutPoint_to_bytes(o))

ScriptToBytes ==
    \E s \in ScriptSamples :
        Encoded("Script::to_bytes", "Script", s, Script_to_bytes(s))

TransactionInputToBytes ==
    \E i \in InputSamples :
        Encoded("TransactionInput::to_bytes", "TransactionInput", i,
                TransactionInput_to_bytes(i))

BitcoinTransactionToBytes ==
    \E t \in TransactionSamples :
        Encoded("BitcoinTransaction::to_bytes", "BitcoinTransaction", t,
                BitcoinTransaction_to_bytes(t))

\* the caller hands on only the first k bytes of an encoding
Truncate ==
    /\ edit = "none"
    /\ result = NoResult
    /\ value.kind \notin { "none", "Txid" }
    /\ \E k \in 0..(Len(bytes) - 1) :
        /\ bytes' = SubSeq(bytes, 1, k)
        /\ edit' = "truncated"
        /\ op' = "truncate"
        /\ result' = NoResult
        /\ UNCHANGED <<value, text>>

\* the encoding is followed by other data in the caller's buffer
Extend ==
    /\ edit = "none"
    /\ result = NoResult
    /\ value.kind \notin { "none", "Txid" }
    /\ \E x \in Suffixes :
        /\ bytes' = bytes \o x
        /\ edit' = "extended"
        /\ op' = "extend"
        /\ result' = NoResult
        /\ UNCHANGED <<value, text>>

\* a buffer arrives from the wire
Feed ==
    \E b \in RawBuffers :
        /\ op = "init"
        /\ bytes' = b
        /\ edit' = "raw"
        /\ op' = "feed"
        /\ value' = NoValue
        /\ text' = <<>>
        /\ result' = NoResult

CompactSizeFromBytes ==
    Decoded("CompactSize::from_bytes", CompactSize_from_bytes(bytes))

OutPointFromBytes ==
    Decoded("OutPoint::from_bytes", OutPoint_from_bytes(bytes))

ScriptFromBytes ==
    \E overflow_checks \in BOOLEAN :
        Decoded("Script::from_bytes", Script_from_bytes(bytes, overflow_checks))

TransactionInputFromBytes ==
    \E overflow_checks \in BOOLEAN :
        Decoded("TransactionInput::from_bytes",
                TransactionInput_from_bytes(bytes, overflow_checks))

BitcoinTransactionFromBytes ==
    \E overflow_checks \in BOOLEAN :
        Decoded("BitcoinTransaction::from_bytes",
                BitcoinTransaction_from_bytes(bytes, overflow_checks))

TxidSerialize ==
    \E t \in TxidSamples :
        /\ op = "init"
        /\ op' = "Txid::serialize"
        /\ value' = [kind |-> "Txid", v |-> t]
        /\ text' = Txid_serialize(t)
        /\ edit' = "none"
        /\ bytes' = <<>>
        /\ result' = NoResult

\* the string reaches the parser altered
EditText ==
    /\ edit = "none"
    /\ result = NoResult
    /\ value.kind = "Txid"
    /\ \E s \in TextEdits(text) :
        /\ text' = s
        /\ edit' = "edited"
        /\ op' = "edit_text"
        /\ result' = NoResult
        /\ UNCHANGED <<value, bytes>>

TxidDeserialize ==
    /\ value.kind = "Txid"
    /\ Decoded("Txid::deserialize", Txid_deserialize(text))

Next ==
    \/ CompactSizeToBytes
    \/ OutPointToBytes
    \/ ScriptToBytes
    \/ TransactionInputToBytes
    \/ BitcoinTransactionToBytes
    \/ Truncate
    \/ Extend
    \/ Feed
    \/ CompactSizeFromBytes
    \/ OutPointFromBytes
    \/ ScriptFromBytes
    \/ TransactionInputFromBytes
    \/ BitcoinTransactionFromBytes
    \/ TxidSerialize
    \/ EditText
    \/ TxidDeserialize

Spec == Init /\ [][Next]_vars

----------------------------------------------------------------------------
(* The wire format as the documentation states it, written out on its own  *)

\* a 32-bit field, least significant byte first
Le4(x) == <<x[1] % 256, x[1] \div 256, x[2] % 256, x[2] \div 256>>

\* a 64-bit field, least significant byte first
Le8(x) == <<x[1] % 256, x[1] \div 256, x[2] % 256, x[2] \div 256,
            x[3] % 256, x[3] \div 256, x[4] % 256, x[4] \div 256>>

\* width and bytes of the length prefix of n items, n below 65536
PrefixWidth(n) == IF n <= 252 THEN 1 ELSE 3
PrefixBytes(n) == IF n <= 252 THEN <<n>> ELSE <<253, n % 256, n \div 256>>

InputLength(i) ==
    36 + (PrefixWidth(Len(i.script_sig.bytes)) + Len(i.script_sig.bytes)) + 4

InputLayout(i) ==
    i.previous_output.txid \o Le4(i.previous_output.vout)
        \o PrefixBytes(Len(i.script_sig.bytes)) \o i.script_sig.bytes
        \o Le4(i.sequence)

RECURSIVE SumInputLengths(_, _)
SumInputLengths(inputs, k) ==
    IF k > Len(inputs) THEN 0
    ELSE InputLength(inputs[k]) + SumInputLengths(inputs, k + 1)

RECURSIVE InputsLayout(_, _)
InputsLayout(inputs, k) ==
    IF k > Len(inputs) THEN <<>>
    ELSE InputLayout(inputs[k]) \o InputsLayout(inputs, k + 1)

\* version=1, one input (32 zero bytes, vout 0, empty script, 0xffffffff), lock_time=0
ExampleTransaction ==
    BitcoinTransaction_new(<<1, 0>>, <<ExampleInput>>, <<0, 0>>)

ExampleBytes ==
    <<1, 0, 0, 0>> \o <<1>> \o [i \in 1..32 |-> 0] \o <<0, 0, 0, 0>> \o <<0>>
        \o <<255, 255, 255, 255>> \o <<0, 0, 0, 0>>

\* the decoder of each component, by the name of the operation
DecoderOps ==
    { "CompactSize::from_bytes", "OutPoint::from_bytes", "Script::from_bytes",
      "TransactionInput::from_bytes", "BitcoinTransaction::from_bytes" }

DecoderOf(kind) ==
    CASE kind = "CompactSize" -> "CompactSize::from_bytes"
      [] kind = "OutPoint" -> "OutPoint::from_bytes"
      [] kind = "Script" -> "Script::from_bytes"
      [] kind = "TransactionInput" -> "TransactionInput::from_bytes"
      [] kind = "BitcoinTransaction" -> "BitcoinTransaction::from_bytes"
      [] OTHER -> "none"

RunDecoder(name, b, overflow_checks) ==
    CASE name = "CompactSize::from_bytes" -> CompactSize_from_bytes(b)
      [] name = "OutPoint::from_bytes" -> OutPoint_from_bytes(b)
      [] name = "Script::from_bytes" -> Script_from_bytes(b, overflow_checks)
      [] name = "TransactionInput::from_bytes" ->
            TransactionInput_from_bytes(b, overflow_checks)
      [] name = "BitcoinTransaction::from_bytes" ->
            BitcoinTransaction_from_bytes(b, overflow_checks)

----------------------------------------------------------------------------
(* Claims                                                                  *)

\* C1: decoding the untouched encoding of a constructed transaction gives
\* back that transaction, field for field and input for input in order, and
\* the consumed count is the full encoded length.
C1_RoundTrip ==
    (op = "BitcoinTransaction::from_bytes" /\ value.kind = "BitcoinTransaction"
        /\ edit = "none")
    => result = Ok("BitcoinTransaction", value.v, Len(bytes))

C1_Witness ==
    /\ op = "BitcoinTransaction::from_bytes"
    /\ value.kind = "BitcoinTransaction"
    /\ edit = "none"
    /\ Len(value.v.inputs) >= 2
    /\ value.v.inputs[1] # value.v.inputs[2]
    /\ result.tag = "Ok"
    /\ result.consumed = Len(bytes)

\* C2: once the length prefix (width w, declared length L) is decoded,
\* Script::from_bytes fails with InsufficientBytes whenever fewer than L
\* bytes follow the prefix, for every L up to 2^64 - 1, and otherwise returns
\* the L bytes after the prefix with consumed = w + L.
C2_ScriptLengthCheck ==
    (op = "Script::from_bytes" /\ CompactSize_from_bytes(bytes).tag = "Ok")
    => LET w == CompactSize_from_bytes(bytes).consumed
           L == CompactSize_from_bytes(bytes).v.value
       IN  IF LimbsLess(U64FromNat(Len(bytes) - w), L)
           THEN result = Err(InsufficientBytes)
           ELSE result = Ok("Script",
                            Script_new(SubSeq(bytes, w + 1, w + NatFromU64(L))),
                            w + NatFromU64(L))

\* C3: from_bytes of a component, given a strict prefix of the encoding of a
\* value of that component (the empty buffer included), fails with
\* InsufficientBytes: no Ok, no default value, no other error.
C3_Truncation ==
    (edit = "truncated" /\ op = DecoderOf(value.kind))
    => result = Err(InsufficientBytes)

C3_Witness ==
    /\ edit = "truncated"
    /\ value.kind = "BitcoinTransaction"
    /\ op = "BitcoinTransaction::from_bytes"
    /\ Len(value.v.inputs) >= 2
    /\ Len(bytes) > 5 + InputLength(value.v.inputs[1])
    /\ result = Err(InsufficientBytes)

\* C4: with a declared input count n, BitcoinTransaction::from_bytes returns
\* Ok with exactly n inputs or Err(InsufficientBytes); it never returns a
\* transaction with fewer inputs than declared, however large n is.
C4_DeclaredCount ==
    (op = "BitcoinTransaction::from_bytes" /\ Len(bytes) >= 4
        /\ CompactSize_from_bytes(SliceFrom(bytes, 4)).tag = "Ok")
    => \/ result = Err(InsufficientBytes)
       \/ /\ result.tag = "Ok"
          /\ U64FromNat(Len(result.v.inputs))
                = CompactSize_from_bytes(SliceFrom(bytes, 4)).v.value

\* C5: CompactSize::to_bytes emits the minimal-width form: one byte up to
\* 252, 0xfd and 2 little-endian bytes up to 65535, 0xfe and 4 up to
\* 4294967295, 0xff and 8 above; the class edges fall on the stated sides.
C5_MinimalWidth ==
    op = "CompactSize::to_bytes"
    => LET v == value.v.value IN
       /\ (v[2] = 0 /\ v[3] = 0 /\ v[4] = 0 /\ v[1] <= 252) => bytes = <<v[1]>>
       /\ (v[2] = 0 /\ v[3] = 0 /\ v[4] = 0 /\ v[1] >= 253)
            => bytes = <<253, v[1] % 256, v[1] \div 256>>
       /\ (v[2] > 0 /\ v[3] = 0 /\ v[4] = 0) => bytes = <<254>> \o Le4(<<v[1], v[2]>>)
       /\ (v[3] > 0 \/ v[4] > 0) => bytes = <<255>> \o Le8(v)
       /\ v = <<252, 0, 0, 0>> => bytes = <<252>>
       /\ v = <<253, 0, 0, 0>> => bytes = <<253, 253, 0>>
       /\ v = <<65535, 0, 0, 0>> => bytes = <<253, 255, 255>>
       /\ v = <<0, 1, 0, 0>> => bytes = <<254, 0, 0, 1, 0>>
       /\ v = <<65535, 65535, 0, 0>> => bytes = <<254, 255, 255, 255, 255>>
       /\ v = <<0, 0, 1, 0>> => bytes = <<255, 0, 0, 0, 0, 1, 0, 0, 0>>

C5_Witness ==
    /\ op = "CompactSize::to_bytes"
    /\ value.v.value = <<0, 0, 1, 0>>
    /\ Len(bytes) = 9
    /\ bytes[1] = 255

\* C6: CompactSize::from_bytes is decided by the first byte and checks only
\* truncation: a first byte up to 0xfc is the value (consumed 1); 0xfd, 0xfe,
\* 0xff need 3, 5, 9 bytes, else InsufficientBytes, and give the
\* little-endian integer that follows whatever its magnitude; an over-long
\* encoding is accepted; decoding an encoding gives the value and its length.
C6_FirstByteDecides ==
    op = "CompactSize::from_bytes"
    => /\ Len(bytes) = 0 => result = Err(InsufficientBytes)
       /\ (Len(bytes) > 0 /\ bytes[1] <= 252)
            => result = Ok("CompactSize", [value |-> <<bytes[1], 0, 0, 0>>], 1)
       /\ (Len(bytes) > 0 /\ bytes[1] = 253)
            => IF Len(bytes) < 3 THEN result = Err(InsufficientBytes)
               ELSE result = Ok("CompactSize",
                        [value |-> <<bytes[2] + 256 * bytes[3], 0, 0, 0>>], 3)
       /\ (Len(bytes) > 0 /\ bytes[1] = 254)
            => IF Len(bytes) < 5 THEN result = Err(InsufficientBytes)
               ELSE result = Ok("CompactSize",
                        [value |-> <<bytes[2] + 256 * bytes[3],
                                     bytes[4] + 256 * bytes[5], 0, 0>>], 5)
       /\ (Len(bytes) > 0 /\ bytes[1] = 255)
            => IF Len(bytes) < 9 THEN result = Err(InsufficientBytes)
               ELSE result = Ok("CompactSize",
                        [value |-> <<bytes[2] + 256 * bytes[3],
                                     bytes[4] + 256 * bytes[5],
                                     bytes[6] + 256 * bytes[7],
                                     bytes[8] + 256 * bytes[9]>>], 9)
       /\ (Len(bytes) >= 9 /\ SubSeq(bytes, 1, 9) = <<255, 5, 0, 0, 0, 0, 0, 0, 0>>)
            => result = Ok("CompactSize", [value |-> <<5, 0, 0, 0>>], 9)
       /\ (value.kind = "CompactSize" /\ edit = "none")
            => result = Ok("CompactSize", value.v, Len(bytes))

C6_Witness ==
    /\ op = "CompactSize::from_bytes"
    /\ Len(bytes) >= 9
    /\ SubSeq(bytes, 1, 9) = <<255, 5, 0, 0, 0, 0, 0, 0, 0>>
    /\ result.tag = "Ok"
    /\ result.consumed = 9
    /\ Len(CompactSize_to_bytes(result.v)) < result.consumed

\* C7: an encoded OutPoint is 36 bytes, txid then vout little-endian; an
\* encoded input is 36 + (prefix width + script length) + 4 bytes; an
\* encoded transaction is version, count, the inputs in order, lock time,
\* 4 + width(count) + sum of input lengths + 4 bytes long; the example
\* transaction encodes to 50 bytes that decode to it with consumed = 50.
C7_Layout ==
    /\ op = "OutPoint::to_bytes"
        => /\ Len(bytes) = 36
           /\ bytes = value.v.txid \o Le4(value.v.vout)
    /\ op = "TransactionInput::to_bytes"
        => /\ Len(bytes) = InputLength(value.v)
           /\ bytes = InputLayout(value.v)
    /\ op = "BitcoinTransaction::to_bytes"
        => /\ Len(bytes) = 4 + PrefixWidth(Len(value.v.inputs))
                             + SumInputLengths(value.v.inputs, 1) + 4
           /\ bytes = Le4(value.v.version) \o PrefixBytes(Len(value.v.inputs))
                        \o InputsLayout(value.v.inputs, 1) \o Le4(value.v.lock_time)
    /\ (op = "BitcoinTransaction::to_bytes" /\ value.v = ExampleTransaction)
        => (Len(bytes) = 50 /\ bytes = ExampleBytes)
    /\ (op = "BitcoinTransaction::from_bytes" /\ bytes = ExampleBytes)
        => result = Ok("BitcoinTransaction", ExampleTransaction, 50)

C7_Witness ==
    /\ op = "BitcoinTransaction::from_bytes"
    /\ value.kind = "BitcoinTransaction"
    /\ value.v = ExampleTransaction
    /\ Len(bytes) = 50
    /\ result.tag = "Ok"
    /\ result.consumed = 50

\* C8: serializing a Txid gives the 64 lowercase hex characters of its 32
\* bytes, parsing them gives the Txid back, and parsing a string of any
\* other length gives an error and no Txid.
C8_TxidText ==
    /\ op = "Txid::serialize"
        => /\ Len(text) = 64
           /\ \A i \in 1..64 : \E d \in 1..16 : text[i] = HexDigits[d]
           /\ \A i \in 1..32 :
                16 * HexVal(text[2 * i - 1]) + HexVal(text[2 * i]) = value.v[i]
    /\ (op = "Txid::deserialize" /\ edit = "none")
        => result = Ok("Txid", value.v, 64)
    /\ (op = "Txid::deserialize" /\ Len(text) # 64) => result.tag = "Err"

C8_Witness ==
    /\ op = "Txid::deserialize"
    /\ Len(text) = 66
    /\ \A i \in 1..66 : HexVal(text[i]) >= 0
    /\ result.tag = "Err"

\* C9: every decoder, on every buffer, returns Err(InsufficientBytes) or Ok
\* with consumed <= the buffer length; no slice bound leaves the buffer, no
\* offset addition overflows, and InvalidFormat is never returned.
C9_BoundsSafety ==
    op \in DecoderOps
    => \/ result = Err(InsufficientBytes)
       \/ (result.tag = "Ok" /\ result.consumed <= Len(bytes))

\* C10: a decoder that returns Ok((v, n)) on a buffer returns the same on
\* the first n bytes of it followed by anything: trailing bytes are ignored.
C10_TrailingIgnored ==
    (op \in DecoderOps /\ result.tag = "Ok")
    => \A x \in Suffixes \cup { <<>> } : \A overflow_checks \in BOOLEAN :
          RunDecoder(op, SubSeq(bytes, 1, result.consumed) \o x, overflow_checks)
            = result

C10_Witness ==
    /\ op = "BitcoinTransaction::from_bytes"
    /\ result.tag = "Ok"
    /\ Len(result.v.inputs) >= 1
    /\ result.consumed < Len(bytes)

====
